---------------------------- MODULE Spec2Model ----------------------------
(***************************************************************************)
(* Model of srilanka-nic-decoder.py: is_valid_nic, parse_nic_base,         *)
(* nic_to_date and decode_nic.  A text is a sequence of characters, each   *)
(* character a string.  Two non-ASCII characters stand for the Unicode     *)
(* classes Python's str methods and re module tell apart:                  *)
(*   "U+0663"  ARABIC-INDIC DIGIT THREE (category Nd, decimal value 3)     *)
(*   "U+00B2"  SUPERSCRIPT TWO (category No: isdigit() but not a decimal)  *)
(* Every call is one action: the caller picks the arguments, the function  *)
(* runs to its return or its raise, and the outcome is recorded.           *)
(***************************************************************************)
EXTENDS Integers, Sequences, FiniteSets

VARIABLES call, ret

vars == <<call, ret>>

(***************************** bounds ***************************************)

\* Most whitespace characters put in front of and behind a generated text.
MaxPad == 1

\* The largest offset a caller passes besides the small ones.
LargeOffset == 129

(***************************** characters ***********************************)

AsciiDigits == {"0", "1", "2", "3", "4", "5", "6", "7", "8", "9"}

AsciiLetters == {"V", "X", "a", "b", "c", "d", "e", "i", "l", "n", "v"}

\* int(c) of one decimal character.
DigitValue(c) ==
    CASE c = "0" -> 0 [] c = "1" -> 1 [] c = "2" -> 2 [] c = "3" -> 3
      [] c = "4" -> 4 [] c = "5" -> 5 [] c = "6" -> 6 [] c = "7" -> 7
      [] c = "8" -> 8 [] c = "9" -> 9 [] c = "U+0663" -> 3

\* Unicode category Nd: what \d matches in a str pattern and what int() reads.
isdecimal(c) == c \in AsciiDigits \cup {"U+0663"}

\* str.isdigit() of one character: decimals and the digit-typed others.
isdigit_char(c) == isdecimal(c) \/ c = "U+00B2"

\* str.isspace() of one character.
isspace(c) == c = " "

\* \w in a str pattern: alphanumeric characters and the underscore.
is_word_char(c) == c \in AsciiLetters \/ isdigit_char(c) \/ c = "_"

(***************************** str and int **********************************)

\* str.strip(): the text without its leading and trailing whitespace.
strip(s) ==
    LET keep == {i \in 1..Len(s) : ~isspace(s[i])}
        lo == CHOOSE i \in keep : \A j \in keep : i <= j
        hi == CHOOSE i \in keep : \A j \in keep : j <= i
    IN IF keep = {} THEN <<>> ELSE SubSeq(s, lo, hi)

\* str.isdigit(): non-empty and every character a digit.
isdigit(s) == Len(s) > 0 /\ \A i \in 1..Len(s) : isdigit_char(s[i])

\* The value of a sequence of decimal characters, most significant first.
RECURSIVE decimal_value(_)
decimal_value(ds) ==
    IF ds = <<>> THEN 0
    ELSE 10 * decimal_value(SubSeq(ds, 1, Len(ds) - 1)) + DigitValue(ds[Len(ds)])

\* int(s) for a str s, base 10: surrounding whitespace is skipped, one sign is
\* allowed, single underscores may separate the decimal digits.  A text that is
\* no such literal raises ValueError (ok = FALSE).
int(s) ==
    LET t == strip(s)
        signed == t # <<>> /\ t[1] \in {"+", "-"}
        body == IF signed THEN Tail(t) ELSE t
        wellformed ==
            /\ body # <<>>
            /\ \A i \in 1..Len(body) : isdecimal(body[i]) \/ body[i] = "_"
            /\ isdecimal(body[1])
            /\ isdecimal(body[Len(body)])
            /\ \A i \in 1..(Len(body) - 1) : ~(body[i] = "_" /\ body[i + 1] = "_")
        magnitude == decimal_value(SelectSeq(body, isdecimal))
    IN IF ~wellformed THEN [ok |-> FALSE]
       ELSE [ok |-> TRUE,
             val |-> IF signed /\ t[1] = "-" THEN 0 - magnitude ELSE magnitude]

\* re.match(r"^\d{5}\w{5}$", nic): five decimals, then five word characters.
\* ($ also matches before a final newline; a stripped text has none.)
re_match_old(nic) ==
    /\ Len(nic) = 10
    /\ \A i \in 1..5 : isdecimal(nic[i])
    /\ \A i \in 6..10 : is_word_char(nic[i])

(***************************** outcomes *************************************)

\* A returned object (a tuple, a date, a NICInfo), and a returned bool.
Return(v) == [kind |-> "return", value |-> v]

ReturnBool(b) == [kind |-> "return", truth |-> b]

Raise(exc, msg) == [kind |-> "raise", exc |-> exc, msg |-> msg]

(***************************** is_valid_nic *********************************)

is_valid_nic(nic0) ==
    LET nic == strip(nic0)
    IN IF Len(nic) = 10 THEN ReturnBool(re_match_old(nic))
       ELSE IF Len(nic) = 12 THEN ReturnBool(isdigit(nic))
       ELSE ReturnBool(FALSE)

(***************************** parse_nic_base *******************************)

\* Line 90 with the boundary year left in the 1900s.
resolve_birth_year_below_25(year_part) ==
    IF 0 <= year_part /\ year_part < 25 THEN 2000 + year_part ELSE 1900 + year_part

\* Line 90: the century of a two-digit year.
resolve_birth_year(year_part) ==
    IF 0 <= year_part /\ year_part <= 25 THEN 2000 + year_part ELSE 1900 + year_part

\* Returns the tuple (nic_type, birth_year, raw_day_code), its components named
\* here, or raises ValueError.
parse_nic_base(nic0) ==
    LET nic == strip(nic0)
    IN IF Len(nic) = 10 THEN
           LET year_part == int(SubSeq(nic, 1, 2))
               raw_day_code == int(SubSeq(nic, 3, 5))
           IN IF ~year_part.ok \/ ~raw_day_code.ok
              THEN Raise("ValueError", "Invalid old NIC: expected digits in positions 1-5.")
              ELSE Return([nic_type |-> "Old NIC",
                           birth_year |-> resolve_birth_year(year_part.val),
                           raw_day_code |-> raw_day_code.val])
       ELSE IF Len(nic) = 12 THEN
           IF ~isdigit(nic)
           THEN Raise("ValueError", "Invalid new NIC: expected 12 digits.")
           ELSE LET birth_year == int(SubSeq(nic, 1, 4))
                    raw_day_code == int(SubSeq(nic, 5, 7))
                IN IF ~birth_year.ok \/ ~raw_day_code.ok
                   THEN Raise("ValueError", "invalid literal for int() with base 10")
                   ELSE Return([nic_type |-> "New NIC",
                                birth_year |-> birth_year.val,
                                raw_day_code |-> raw_day_code.val])
       ELSE Raise("ValueError", "Invalid NIC length; expected 10 (old) or 12 (new).")

(***************************** datetime *************************************)

\* calendar: year -> 1 if leap, else 0.
is_leap(year) == year % 4 = 0 /\ (year % 100 # 0 \/ year % 400 = 0)

\* Number of days before January 1st of year.
days_before_year(year) ==
    LET y == year - 1 IN y * 365 + y \div 4 - y \div 100 + y \div 400

days_in_month(year, month) ==
    IF month = 2 THEN (IF is_leap(year) THEN 29 ELSE 28)
    ELSE IF month \in {4, 6, 9, 11} THEN 30 ELSE 31

\* Number of days in year preceding the first day of month.
RECURSIVE days_before_month(_, _)
days_before_month(year, month) ==
    IF month = 1 THEN 0
    ELSE days_before_month(year, month - 1) + days_in_month(year, month - 1)

\* date.toordinal(): year, month, day -> ordinal, 01-Jan-0001 being day 1.
ymd2ord(year, month, day) ==
    days_before_year(year) + days_before_month(year, month) + day

\* date.fromordinal(): ordinal -> (year, month, day), by the 400-, 100-, 4- and
\* 1-year cycles of the proleptic Gregorian calendar.
ord2ymd(ordinal) ==
    LET n0 == ordinal - 1
        n400 == n0 \div 146097
        r400 == n0 % 146097
        n100 == r400 \div 36524
        r100 == r400 % 36524
        n4 == r100 \div 1461
        r4 == r100 % 1461
        n1 == r4 \div 365
        n == r4 % 365
        year == n400 * 400 + 1 + n100 * 100 + n4 * 4 + n1
        month == CHOOSE m \in 1..12 :
                     /\ days_before_month(year, m) <= n
                     /\ n < days_before_month(year, m) + days_in_month(year, m)
    IN IF n1 = 4 \/ n100 = 4
       THEN [year |-> year - 1, month |-> 12, day |-> 31]
       ELSE [year |-> year, month |-> month,
             day |-> n - days_before_month(year, month) + 1]

(***************************** nic_to_date **********************************)

\* Line 116 with the offset added instead of subtracted.
day_of_year_offset_added(day_code, offset) == day_code + offset

\* Line 116: the zero-based day of the year.
day_of_year_of(day_code, offset) == day_code - offset

\* nic_to_date counting January 1 as day 1 instead of day 0.
nic_to_date_one_based(birth_year, day_code, offset) ==
    LET day_of_year == day_code - offset - 1
        ordinal == ymd2ord(birth_year, 1, 1) + day_of_year
    IN IF birth_year < 1 \/ birth_year > 9999
       THEN Raise("ValueError", "year is out of range")
       ELSE IF \/ day_of_year > 999999999 \/ day_of_year < -999999999
               \/ ordinal < 1 \/ ordinal > 3652059
       THEN Raise("ValueError", "Computed date out of range")
       ELSE Return(ord2ymd(ordinal))

\* Lines 119-124.  datetime(birth_year, 1, 1) raises ValueError for a year
\* outside 1..9999, before the try; timedelta(days=...) beyond 999999999 days
\* and a sum outside 0001-01-01..9999-12-31 raise OverflowError inside the try,
\* which line 123 turns into ValueError.
nic_to_date(birth_year, day_code, offset) ==
    LET day_of_year == day_of_year_of(day_code, offset)
        ordinal == ymd2ord(birth_year, 1, 1) + day_of_year
    IN IF birth_year < 1 \/ birth_year > 9999
       THEN Raise("ValueError", "year is out of range")
       ELSE IF \/ day_of_year > 999999999 \/ day_of_year < -999999999
               \/ ordinal < 1 \/ ordinal > 3652059
       THEN Raise("ValueError", "Computed date out of range")
       ELSE Return(ord2ymd(ordinal))

(***************************** decode_nic ***********************************)

\* Line 136 with 500 itself taken for a female code.
is_female_from_500(raw_day_code) == raw_day_code >= 500

\* Lines 136-141: the branch taken on raw_day_code.
is_female(raw_day_code) == raw_day_code > 500

gender_of(raw_day_code) == IF is_female(raw_day_code) THEN "Female" ELSE "Male"

day_code_of(raw_day_code) ==
    IF is_female(raw_day_code) THEN raw_day_code - 500 ELSE raw_day_code

\* Line 144 without the lower bound.
day_code_above_range_only(day_code, offset) == day_code > 366 + offset + 5

\* Line 144 without the allowance of 5 days.
day_code_out_of_year(day_code, offset) == day_code < 0 \/ day_code > 366 + offset

\* Line 144: the plausibility check of the normalized day code.
day_code_out_of_range(day_code, offset) ==
    day_code < 0 \/ day_code > 366 + offset + 5

decode_nic(nic, offset) ==
    LET parsed == parse_nic_base(nic)
    IN IF parsed.kind = "raise" THEN parsed
       ELSE
       LET nic_type == parsed.value.nic_type
           birth_year == parsed.value.birth_year
           raw_day_code == parsed.value.raw_day_code
           gender == gender_of(raw_day_code)
           day_code == day_code_of(raw_day_code)
           birth_date == nic_to_date(birth_year, day_code, offset)
       IN IF day_code_out_of_range(day_code, offset)
          THEN Raise("ValueError", "NIC day code out of expected range")
          ELSE IF birth_date.kind = "raise" THEN birth_date
          ELSE Return([nic_type |-> nic_type,
                       gender |-> gender,
                       birth_year |-> birth_year,
                       raw_day_code |-> raw_day_code,
                       day_code |-> day_code,
                       birth_date |-> birth_date.value])

(***************************** callers' arguments ***************************)

\* The pieces the generated texts are put together from: the two characters of
\* an old NIC's year, the three characters of a day code, the five characters
\* after it, and the four characters of a new NIC's year.
OldYearParts ==
    {
      <<"0", "0">>, <<"0", "1">>, <<"1", "2">>, <<"2", "5">>,
      <<"2", "6">>, <<"9", "1">>, <<"9", "9">>, <<"+", "1">>,
      <<"-", "1">>, <<"1", " ">>, <<"1", "_">>, <<"i", "n">>,
      <<"U+0663", "1">>, <<"U+00B2", "1">>
    }

DayParts ==
    {
      <<"0", "0", "0">>, <<"0", "0", "1">>, <<"0", "3", "6">>, <<"2", "6", "8">>,
      <<"3", "4", "5">>, <<"3", "7", "3">>, <<"3", "7", "4">>, <<"5", "0", "0">>,
      <<"5", "0", "1">>, <<"5", "3", "6">>, <<"8", "7", "3">>, <<"8", "7", "4">>,
      <<"9", "9", "9">>, <<"+", "4", "5">>, <<"-", "1", "2">>, <<" ", "4", "5">>,
      <<"1", "_", "2">>, <<"_", "1", "2">>, <<"4", " ", "5">>, <<"v", "a", "l">>,
      <<"2", "6", "a">>, <<"U+0663", "6", "8">>, <<"U+00B2", "6", "8">>
    }

OldTails ==
    {
      <<"0", "4", "4", "4", "V">>, <<"a", "b", "c", "d", "e">>, <<"6", "7", "8", "9", "0">>,
      <<"i", "d", "1", "2", "3">>, <<"a", "b", "_", "d", "e">>, <<"a", "b", ".", "d", "e">>,
      <<"a", "b", "c", "d", "U+00B2">>
    }

NewYearParts ==
    {
      <<"1", "9", "9", "2">>, <<"1", "9", "9", "1">>, <<"2", "0", "1", "2">>,
      <<"0", "0", "0", "0">>, <<"0", "0", "0", "1">>, <<"9", "9", "9", "9">>,
      <<"U+0663", "9", "9", "2">>, <<"U+00B2", "9", "9", "2">>, <<"1", "9", "_", "2">>,
      <<"+", "1", "9", "9">>
    }

NewTails ==
    {
      <<"0", "0", "0", "0", "1">>, <<"0", "0", "0", "0", "V">>, <<"0", "0", "0", "0", "U+00B2">>
    }

\* Texts of no NIC length.
OtherTexts ==
    {
      <<>>, <<"i", "n", "v", "a", "l", "i", "d">>,
      <<"9", "1", "2", "6", "8", "0", "4", "4", "4">>, <<"9", "1", "2", "6", "8", "0", "4", "4", "4", "1", "2">>,
      <<"1", "9", "9", "2", "5", "3", "6", "0", "0", "0", "0", "1", "1">>
    }

\* n whitespace characters.
spaces(n) == [i \in 1..n |-> " "]

Cores ==
    {y \o d \o t : y \in OldYearParts, d \in DayParts, t \in OldTails}
    \cup {y \o d \o t : y \in NewYearParts, d \in DayParts, t \in NewTails}
    \cup OtherTexts

\* Every text a caller passes: a core with up to MaxPad spaces on either side.
Texts == {spaces(l) \o c \o spaces(r) : l \in 0..MaxPad, r \in 0..MaxPad, c \in Cores}

\* The offsets a caller passes (the default is DEFAULT_NIC_DAY_OFFSET).
DEFAULT_NIC_DAY_OFFSET == 2

Offsets == {-1, 0, DEFAULT_NIC_DAY_OFFSET, 3, LargeOffset - 1, LargeOffset}

\* The years and day codes a caller of nic_to_date passes.
Years == {0, 1, 4, 100, 1900, 1991, 1992, 2000, 2012, 9999, 10000}

DayCodes == (-2..373) \cup {-1000000000, -367, 500, 1000000000}

(***************************** the calls ************************************)

Init ==
    /\ call = [op |-> "none"]
    /\ ret = [kind |-> "none"]

IsValidNic ==
    /\ call.op = "none"
    /\ \E nic \in Texts :
        /\ call' = [op |-> "is_valid_nic", nic |-> nic]
        /\ ret' = is_valid_nic(nic)

ParseNicBase ==
    /\ call.op = "none"
    /\ \E nic \in Texts :
        /\ call' = [op |-> "parse_nic_base", nic |-> nic]
        /\ ret' = parse_nic_base(nic)

NicToDate ==
    /\ call.op = "none"
    /\ \E birth_year \in Years, day_code \in DayCodes, offset \in Offsets :
        /\ call' = [op |-> "nic_to_date", birth_year |-> birth_year,
                    day_code |-> day_code, offset |-> offset]
        /\ ret' = nic_to_date(birth_year, day_code, offset)

DecodeNic ==
    /\ call.op = "none"
    /\ \E nic \in Texts, offset \in Offsets :
        /\ call' = [op |-> "decode_nic", nic |-> nic, offset |-> offset]
        /\ ret' = decode_nic(nic, offset)

Next == IsValidNic \/ ParseNicBase \/ NicToDate \/ DecodeNic

Spec == Init /\ [][Next]_vars

(***************************** vocabulary of the claims **********************)

\* The error kinds of the specification, told apart by where the ValueError is
\* raised: parse_nic_base (FormatError), the check of line 144
\* (DayCodeRangeError), nic_to_date (RangeError).
FormatError(r) ==
    /\ r.kind = "raise"
    /\ r.exc = "ValueError"
    /\ r.msg \in {"Invalid old NIC: expected digits in positions 1-5.",
                  "Invalid new NIC: expected 12 digits.",
                  "invalid literal for int() with base 10",
                  "Invalid NIC length; expected 10 (old) or 12 (new)."}

DayCodeRangeError(r) ==
    /\ r.kind = "raise"
    /\ r.exc = "ValueError"
    /\ r.msg = "NIC day code out of expected range"

RangeError(r) ==
    /\ r.kind = "raise"
    /\ r.exc = "ValueError"
    /\ r.msg \in {"Computed date out of range", "year is out of range"}

\* A digit: a decimal digit character.  A letter.  SUPERSCRIPT TWO is a digit
\* to str.isdigit() and none to \d and int(): the word "digit" does not decide
\* it, and the claims about shapes are stated for the texts without it.
Decided(t) == \A i \in 1..Len(t) : t[i] # "U+00B2"

ClaimDigit(c) == c \in {"0", "1", "2", "3", "4", "5", "6", "7", "8", "9", "U+0663"}

ClaimLetter(c) == c \in {"V", "X", "a", "b", "c", "d", "e", "i", "l", "n", "v"}

\* The two shapes of a NIC: 5 digits and 5 letters or digits, or 12 digits.
ClaimShape(t) ==
    \/ /\ Len(t) = 10
       /\ \A i \in 1..5 : ClaimDigit(t[i])
       /\ \A i \in 6..10 : ClaimDigit(t[i]) \/ ClaimLetter(t[i])
    \/ /\ Len(t) = 12
       /\ \A i \in 1..12 : ClaimDigit(t[i])

\* A text parse_base has to refuse: a wrong length, or a non-digit where
\* digits are required.
ClaimMalformed(t) ==
    \/ Len(t) \notin {10, 12}
    \/ Len(t) = 10 /\ \E i \in 1..5 : ~ClaimDigit(t[i])
    \/ Len(t) = 12 /\ \E i \in 1..12 : ~ClaimDigit(t[i])

\* A calendar date: a month of the year and a day of that month.
IsCalendarDate(d) ==
    /\ d.year \in 1..9999
    /\ d.month \in 1..12
    /\ d.day \in 1..days_in_month(d.year, d.month)

\* The day number of the date that lies day_code - offset days after January 1
\* of birth_year, counted from 0001-01-01 as day 1; 9999-12-31 is day 3652059.
TargetDay(birth_year, day_code, offset) ==
    days_before_year(birth_year) + 1 + (day_code - offset)

Representable(n) == 1 <= n /\ n <= 3652059

Date(y, m, d) == [year |-> y, month |-> m, day |-> d]

OldNic == <<"9", "1", "2", "6", "8", "0", "4", "4", "4", "V">>

NewNic == <<"1", "9", "9", "2", "5", "3", "6", "0", "0", "0", "0", "1">>

ImplausibleNic == <<"1", "2", "3", "4", "5", "6", "7", "8", "9", "0">>

SignedNic == <<"+", "1", "2", "6", "8", "a", "b", "c", "d", "e">>

SpacedNic == <<"1", "2", " ", "4", "5", "a", "b", "c", "d", "e">>

InvalidNic == <<"i", "n", "v", "a", "l", "i", "d", "1", "2", "3">>

(***************************** C1 *******************************************)

\* C1: is_valid_nic never raises and returns true exactly when the trimmed
\* text is 10 characters, 5 digits then 5 letters or digits, or 12 digits; for
\* every other shape (an underscore in the last five, say) it returns false.
C1_ValidExactlyOnShape ==
    call.op = "is_valid_nic" =>
        /\ ret.kind = "return"
        /\ Decided(call.nic) => ret.truth = ClaimShape(strip(call.nic))

(***************************** C2 *******************************************)

\* C2: parse_nic_base, and so decode_nic, fails with FormatError if and only if
\* the trimmed text has a length other than 10 and 12 or a non-digit where
\* digits are required; "+1268abcde", "12 45abcde" and "invalid123" are refused.
C2_FormatErrorIffMalformed ==
    /\ call.op = "parse_nic_base" =>
        /\ Decided(call.nic) => (FormatError(ret) <=> ClaimMalformed(strip(call.nic)))
        /\ ret.kind = "raise" => FormatError(ret)
        /\ strip(call.nic) \in {SignedNic, SpacedNic, InvalidNic} => FormatError(ret)
    /\ call.op = "decode_nic" =>
        /\ Decided(call.nic) => (FormatError(ret) <=> ClaimMalformed(strip(call.nic)))
        /\ strip(call.nic) \in {SignedNic, SpacedNic, InvalidNic} => FormatError(ret)

(***************************** C3 *******************************************)

\* The day number of a date, 0001-01-01 being day 1.
DayNumber(d) == ymd2ord(d.year, d.month, d.day)

\* The integer written at characters [from, to] of t (counted from 1).
IntegerAt(t, from, to) == int(SubSeq(t, from, to)).val

\* C3: what parse_nic_base accepts, it reads so: 10 characters are an old NIC,
\* its day code the integer at [2:5) and its year 2000 + s for the suffix s at
\* [0:2) in 0..25, else 1900 + s (25 gives 2025, 26 gives 1926); 12 characters
\* are a new NIC, its year the integer at [0:4), its day code the one at [4:7).
C3_ParsedFields ==
    (call.op = "parse_nic_base" /\ ret.kind = "return") =>
        LET t == strip(call.nic)
            s == IntegerAt(t, 1, 2)
        IN /\ Len(t) \in {10, 12}
           /\ Len(t) = 10 =>
                /\ ret.value.nic_type = "Old NIC"
                /\ ret.value.raw_day_code = IntegerAt(t, 3, 5)
                /\ ret.value.birth_year = IF s \in 0..25 THEN 2000 + s ELSE 1900 + s
                /\ SubSeq(t, 1, 2) = <<"2", "5">> => ret.value.birth_year = 2025
                /\ SubSeq(t, 1, 2) = <<"2", "6">> => ret.value.birth_year = 1926
           /\ Len(t) = 12 =>
                /\ ret.value.nic_type = "New NIC"
                /\ ret.value.birth_year = IntegerAt(t, 1, 4)
                /\ ret.value.raw_day_code = IntegerAt(t, 5, 7)

\* An old NIC of the boundary year 25 has been parsed.
C3_Witness ==
    /\ call.op = "parse_nic_base"
    /\ ret.kind = "return"
    /\ Len(strip(call.nic)) = 10
    /\ SubSeq(strip(call.nic), 1, 2) = <<"2", "5">>
    /\ ret.value.birth_year = 2025
    /\ ret.value.raw_day_code = 268

(***************************** C4 *******************************************)

\* C4: in every record decode_nic returns, the gender is Female exactly when
\* raw_day_code > 500, and day_code is raw_day_code less 500 for Female and
\* raw_day_code itself for Male.
C4_GenderAndDayCode ==
    (call.op = "decode_nic" /\ ret.kind = "return") =>
        LET r == ret.value
        IN /\ r.gender \in {"Male", "Female"}
           /\ r.gender = "Female" <=> r.raw_day_code > 500
           /\ r.day_code = r.raw_day_code - (IF r.gender = "Female" THEN 500 ELSE 0)

\* A female holder's NIC has been decoded.
C4_Witness ==
    /\ call.op = "decode_nic"
    /\ strip(call.nic) = NewNic
    /\ ret.kind = "return"
    /\ ret.value.gender = "Female"
    /\ ret.value.raw_day_code = 536
    /\ ret.value.day_code = 36

(***************************** C5 *******************************************)

\* C5: in every record decode_nic returns, for any offset, raw_day_code is in
\* [0, 999] and day_code is in [0, 499].
C5_CodesWithinBounds ==
    (call.op = "decode_nic" /\ ret.kind = "return") =>
        /\ ret.value.raw_day_code \in 0..999
        /\ ret.value.day_code \in 0..499

\* C5, amended: raw_day_code is in [0, 999] and day_code is in [0, 500];
\* day_code is 500 only for raw_day_code 500, which passes the range check
\* only with an offset of 129 or more.
C5_CodesWithinBoundsAmended ==
    (call.op = "decode_nic" /\ ret.kind = "return") =>
        /\ ret.value.raw_day_code \in 0..999
        /\ ret.value.day_code \in 0..500
        /\ ret.value.day_code = 500 =>
               ret.value.raw_day_code = 500 /\ call.offset >= 129

\* A record with day_code 500 has been returned, for a NIC of 1991.
C5_Witness ==
    /\ call.op = "decode_nic"
    /\ ret.kind = "return"
    /\ ret.value.birth_year = 1991
    /\ ret.value.day_code = 500

(***************************** C6 *******************************************)

\* C6: for a text parse_nic_base accepts, decode_nic fails with
\* DayCodeRangeError exactly when the normalized day code is below 0 or above
\* 366 + offset + 5, whatever the year (the check comes before the date is
\* resolved); with the default offset the check passes exactly for
\* raw_day_code in [0, 373] or [501, 873].
C6_DayCodeRangeErrorIff ==
    (call.op = "decode_nic" /\ parse_nic_base(call.nic).kind = "return") =>
        LET raw == parse_nic_base(call.nic).value.raw_day_code
            normalized == IF raw > 500 THEN raw - 500 ELSE raw
        IN /\ DayCodeRangeError(ret) <=>
                  (normalized < 0 \/ normalized > 366 + call.offset + 5)
           /\ call.offset = DEFAULT_NIC_DAY_OFFSET =>
                  (~DayCodeRangeError(ret) <=> raw \in (0..373) \cup (501..873))

\* A day code out of range has been reported for a NIC of the year 0, which
\* no date can be resolved for.
C6_Witness ==
    /\ call.op = "decode_nic"
    /\ parse_nic_base(call.nic).kind = "return"
    /\ parse_nic_base(call.nic).value.birth_year = 0
    /\ parse_nic_base(call.nic).value.raw_day_code = 374
    /\ call.offset = DEFAULT_NIC_DAY_OFFSET
    /\ DayCodeRangeError(ret)

(***************************** C7 *******************************************)

\* What C7 asks of a call of nic_to_date: the date day_code - offset days
\* after January 1 of birth_year when that date is representable, the range
\* error when it is not.
JanuaryFirstPlusDays ==
    LET n == TargetDay(call.birth_year, call.day_code, call.offset)
    IN /\ Representable(n) =>
            /\ ret.kind = "return"
            /\ IsCalendarDate(ret.value)
            /\ DayNumber(ret.value) = n
       /\ ~Representable(n) => RangeError(ret)
       /\ (call.birth_year = 1991 /\ call.day_code = 268 /\ call.offset = 2) =>
            ret = Return(Date(1991, 9, 24))

C8_OffsetZeroTwoDaysEarlier ==
    /\ (call.op = "nic_to_date" /\ call.offset = 2 /\ ret.kind = "return") =>
        LET other == nic_to_date(call.birth_year, call.day_code, 0)
        IN other.kind = "return" =>
               DayNumber(other.value) = DayNumber(ret.value) - 2
    /\ (call.op = "decode_nic" /\ call.offset = 2 /\ ret.kind = "return") =>
        LET other == decode_nic(call.nic, 0)
        IN other.kind = "return" =>
               DayNumber(other.value.birth_date) = DayNumber(ret.value.birth_date) - 2

\* C8, amended: the date of offset 0 is exactly 2 days later than the date of
\* offset 2.
C8_OffsetZeroTwoDaysLater ==
    /\ (call.op = "nic_to_date" /\ call.offset = 2 /\ ret.kind = "return") =>
        LET other == nic_to_date(call.birth_year, call.day_code, 0)
        IN other.kind = "return" =>
               DayNumber(other.value) = DayNumber(ret.value) + 2
    /\ (call.op = "decode_nic" /\ call.offset = 2 /\ ret.kind = "return") =>
        LET other == decode_nic(call.nic, 0)
        IN other.kind = "return" =>
               DayNumber(other.value.birth_date) = DayNumber(ret.value.birth_date) + 2

\* A date resolved with offset 2 falls on February 29 and the same day code
\* resolves with offset 0 to March 2.
C8_Witness ==
    /\ call = [op |-> "nic_to_date", birth_year |-> 1992, day_code |-> 61,
               offset |-> 2]
    /\ ret = Return(Date(1992, 2, 29))
    /\ nic_to_date(1992, 61, 0) = Return(Date(1992, 3, 2))

(***************************** C9 *******************************************)

\* C9: decode_nic of "1234567890" with the default offset fails with a range
\* or date error and returns no record.
C9_ImplausibleNicFails ==
    (/\ call.op = "decode_nic"
     /\ strip(call.nic) = ImplausibleNic
     /\ call.offset = DEFAULT_NIC_DAY_OFFSET) =>
        DayCodeRangeError(ret) \/ RangeError(ret)

(***************************** C10 ******************************************)

\* C10: decode_nic of "199253600001" with the default offset returns the
\* record New NIC, 1992, raw day code 536, Female, day code 36, 1992-02-05.
C10_NewNicRecord ==
    (/\ call.op = "decode_nic"
     /\ strip(call.nic) = NewNic
     /\ call.offset = DEFAULT_NIC_DAY_OFFSET) =>
        ret = Return([nic_type |-> "New NIC",
                      gender |-> "Female",
                      birth_year |-> 1992,
                      raw_day_code |-> 536,
                      day_code |-> 36,
                      birth_date |-> Date(1992, 2, 5)])

=============================================================================
